---------------------------- MODULE Spec2Model ----------------------------
(***************************************************************************)
(* A model of QUnfoldQUBO (src/src/QUnfold/core/QUnfoldQUBO.py): the QUBO  *)
(* formulation of the unfolding problem, the decode / energy evaluation    *)
(* round trip, and the toy Monte Carlo error estimation run on a thread    *)
(* pool.                                                                   *)
(*                                                                         *)
(* Numbers.  The response matrix holds exact rationals with the common     *)
(* denominator Den: the model keeps the numerators, so R[i][j] stands for  *)
(* R[i][j] / Den.  Every Hamiltonian coefficient and every energy is kept  *)
(* as a numerator over Scale = Den * Den.  The expected number of entries  *)
(* of a bin is the rational num / den.  All arithmetic is exact; the       *)
(* inputs of the model contain no value for which (expected + 1) * 1.2 is  *)
(* a power of two, which is where floating point rounding could change a   *)
(* bit width.                                                              *)
(***************************************************************************)
EXTENDS Integers, Sequences, FiniteSets, TLC

\* ------------------------------------------------------------------ bounds
NBins == 2          \* number of histogram bins n (the code needs n >= 2)
Den == 2            \* response matrix entries are multiples of 1 / Den
MaxD == 2           \* largest measured count of a bin
MaxLam == 1         \* largest regularization strength
MaxX == 2           \* largest entry of a candidate histogram x
MaxToys == 2        \* largest num_toys
MaxCpu == 3         \* largest os.cpu_count()
MaxWorkers == 2     \* the num_cores a caller gives
MaxFluct == 1       \* largest Poisson fluctuation of a resampled count

Bins == 0 .. (NBins - 1)
Scale == Den * Den
NoneVal == [none |-> TRUE]
Some(v) == [none |-> FALSE, v |-> v]

\* ------------------------------------------------------------ arithmetic
RECURSIVE Pow2(_)
Pow2(k) == IF k = 0 THEN 1 ELSE 2 * Pow2(k - 1)

RECURSIVE SumOver(_, _)
\* the sum of f[i] over the finite set S of the domain of f
SumOver(f, S) ==
    IF S = {} THEN 0
    ELSE LET i == CHOOSE j \in S : TRUE IN f[i] + SumOver(f, S \ {i})

Dot(u, v) == SumOver([i \in Bins |-> u[i] * v[i]], Bins)
MatVec(M, v) == [i \in Bins |-> SumOver([j \in Bins |-> M[i][j] * v[j]], Bins)]
Transpose(M) == [i \in Bins |-> [j \in Bins |-> M[j][i]]]
MatMul(M, N) ==
    [i \in Bins |-> [j \in Bins |-> SumOver([k \in Bins |-> M[i][k] * N[k][j]], Bins)]]
NormSq(v) == Dot(v, v)

\* ------------------------------------------------------- pure functions
\* _get_laplacian(dim) for dim = NBins >= 2: diagonal [-1, -2, ..., -2, -1],
\* ones on the first super- and sub-diagonal.
get_laplacian ==
    [i \in Bins |-> [j \in Bins |->
        IF i = j THEN (IF i = 0 \/ i = NBins - 1 THEN -1 ELSE -2)
        ELSE IF i - j = 1 \/ j - i = 1 THEN 1
        ELSE 0]]

\* effs = np.sum(self.R, axis=0): the column sums, a new array (numerators
\* over Den).
column_sums(Rv) == [j \in Bins |-> SumOver([i \in Bins |-> Rv[i][j]], Bins)]

\* Faulty variant: the zero efficiencies are left as they are.
effs_not_substituted(effs) == effs

\* effs[effs == 0] = 1: a zero efficiency becomes 1, that is Den / Den.
effs_substituted(effs) == [j \in Bins |-> IF effs[j] = 0 THEN Den ELSE effs[j]]

\* self.R after _get_expected_num_entries: np.sum returned a new array and
\* the substitution is made in it, so the matrix is what it was.
response_after_expected(Rv) == Rv

\* Faulty variant: the efficiency is floored at 1, max(eff, 1).
expected_floored_at_one(Rv, dv) ==
    [j \in Bins |->
        [num |-> dv[j] * Den,
         den |-> IF column_sums(Rv)[j] < Den THEN Den ELSE column_sums(Rv)[j]]]

\* _get_expected_num_entries: num_entries = self.d / effs, the rational
\* d[j] / (effs[j] / Den) = (d[j] * Den) / effs[j].  den = 0 stands for
\* numpy's inf or nan.
get_expected_num_entries(Rv, dv) ==
    [j \in Bins |->
        [num |-> dv[j] * Den, den |-> effs_substituted(column_sums(Rv))[j]]]

\* ceil(log2((e + 1) * 1.2)) for e = q.num / q.den >= 0: the least k with
\* 2^k >= (6/5) * (num + den) / den.
RECURSIVE CeilLog2From(_, _)
CeilLog2From(q, k) ==
    IF Pow2(k) * 5 * q.den >= 6 * (q.num + q.den) THEN k ELSE CeilLog2From(q, k + 1)

\* np.isfinite of a quotient: division by zero gives inf or nan, with a
\* warning and no exception.
is_finite(q) == q.den # 0

num_bits_of(q) == CeilLog2From(q, 0)

\* upper = int(2 ** np.ceil(np.log2((num_entries[i] + 1) * 1.2))) - 1
upper_of(q) == Pow2(num_bits_of(q)) - 1

\* LogEncInteger(label, value_range = (0, upper)) of pyqubo, called at line
\* 97: int(log2(upper - lower)) + 1 binary variables label[0], label[1], ...
RECURSIVE FloorLog2(_)
FloorLog2(v) == IF v <= 1 THEN 0 ELSE 1 + FloorLog2(v \div 2)

log_enc_num_variables(upper) == FloorLog2(upper) + 1

\* The coefficient of binary variable label[j]: 2^j, and for the last one
\* what is left of the range, upper - (2^(nv - 1) - 1).
log_enc_coefficient(upper, j) ==
    IF j < log_enc_num_variables(upper) - 1 THEN Pow2(j)
    ELSE upper - (Pow2(log_enc_num_variables(upper) - 1) - 1)

\* _define_variables: the upper bound of each variable x{i}; lower is 0.
\* With a non-finite expected count int(...) raises.
define_variables_raises(Rv, dv) ==
    \E i \in Bins : ~is_finite(get_expected_num_entries(Rv, dv)[i])

define_variables(Rv, dv) ==
    [i \in Bins |-> upper_of(get_expected_num_entries(Rv, dv)[i])]

\* Faulty variant: the factor 2 of the linear term is lost.
hamiltonian_a_halved(Rv, dv) == [i \in Bins |-> (-1) * Den * MatVec(Transpose(Rv), dv)[i]]

\* a = -2 * (self.R.T @ self.d), as numerators over Scale.
hamiltonian_a(Rv, dv) == [i \in Bins |-> (-2) * Den * MatVec(Transpose(Rv), dv)[i]]

\* Faulty variant: the regularization term is left out of B.
hamiltonian_B_unregularized(Rv, lamv) == MatMul(Transpose(Rv), Rv)

\* B = (self.R.T @ self.R) + self.lam * (G.T @ G), as numerators over Scale.
hamiltonian_B(Rv, lamv) ==
    [i \in Bins |-> [j \in Bins |->
        MatMul(Transpose(Rv), Rv)[i][j]
        + lamv * Scale * MatMul(Transpose(get_laplacian), get_laplacian)[i][j]]]

\* The value of the expression built by _define_hamiltonian at integer
\* values x of the variables: sum_i a[i] x[i] + sum_i sum_j B[i, j] x[i] x[j].
define_hamiltonian(Rv, dv, lamv, x) ==
    Dot(hamiltonian_a(Rv, dv), x)
    + SumOver([i \in Bins |->
          SumOver([j \in Bins |-> hamiltonian_B(Rv, lamv)[i][j] * x[i] * x[j]], Bins)],
        Bins)

\* ---------------------------------------------------- the compiled model
NotCompiled == [compiled |-> FALSE]

\* initialize_qubo_model on an instance with fields Rv, dv, lamv: labels,
\* model and bqm.  The compiled model keeps the variables' ranges and the
\* coefficients of the expression it was compiled from.
compile(Rv, dv, lamv) ==
    [compiled |-> TRUE,
     labels |-> [i \in Bins |-> i],
     upper |-> define_variables(Rv, dv),
     a |-> hamiltonian_a(Rv, dv),
     B |-> hamiltonian_B(Rv, lamv)]

\* The binary variables x{i}[j] of a compiled model, as pairs <<i, j>>.
bqm_variables(m) ==
    UNION {{<<i, j>> : j \in 0 .. (log_enc_num_variables(m.upper[i]) - 1)} : i \in Bins}

\* The order in which a pair of distinct binary variables is counted once.
Before(u, v) == u[1] < v[1] \/ (u[1] = v[1] /\ u[2] < v[2])

\* model.to_bqm(): each x{i} of the expression replaced by its binary
\* expansion, b * b reduced to b.  The linear bias of x{i}[j] ...
bqm_linear(m, v) ==
    m.a[v[1]] * log_enc_coefficient(m.upper[v[1]], v[2])
    + m.B[v[1]][v[1]] * log_enc_coefficient(m.upper[v[1]], v[2])
                      * log_enc_coefficient(m.upper[v[1]], v[2])

\* ... and the coupling of two distinct binary variables.
bqm_quadratic(m, u, v) ==
    (m.B[u[1]][v[1]] + m.B[v[1]][u[1]])
    * log_enc_coefficient(m.upper[u[1]], u[2])
    * log_enc_coefficient(m.upper[v[1]], v[2])

\* bqm.energy(sample) of dimod: every variable of the bqm must have a value
\* in the sample; labels of the sample that the bqm does not have count for
\* nothing.
bqm_energy_defined(m, s) == bqm_variables(m) \subseteq DOMAIN s

\* The variables of the bqm that the sample sets to 1: the other terms of the
\* energy are zero.
bqm_ones(m, s) == {v \in bqm_variables(m) : s[v] = 1}

bqm_energy(m, s) ==
    SumOver([v \in bqm_ones(m, s) |-> bqm_linear(m, v)], bqm_ones(m, s))
    + SumOver([p \in {q \in bqm_ones(m, s) \X bqm_ones(m, s) : Before(q[1], q[2])} |->
                  bqm_quadratic(m, p[1], p[2])],
              {q \in bqm_ones(m, s) \X bqm_ones(m, s) : Before(q[1], q[2])})

\* Every bit assignment over the binary variables of a compiled model.
Assignments(m) == [bqm_variables(m) -> {0, 1}]

\* _post_process_sampleset: model.decode_sample(sample).subh[label] for each
\* label in order, the value of each integer variable under the sample.
post_process_sampleset(m, s) ==
    [i \in Bins |->
        SumOver([j \in 0 .. (log_enc_num_variables(m.upper[i]) - 1) |->
                    log_enc_coefficient(m.upper[i], j) * s[<<i, j>>]],
                0 .. (log_enc_num_variables(m.upper[i]) - 1))]

\* len(np.binary_repr(v, width)) for v >= 0: the digits of v, zero filled to
\* width and never cut.
RECURSIVE BitLength(_)
BitLength(v) == IF v <= 1 THEN 1 ELSE 1 + BitLength(v \div 2)

binary_repr_len(v, width) == IF BitLength(v) > width THEN BitLength(v) ELSE width

\* Faulty variant: the bit string is not reversed, so x{i}[0] gets the first digit.
x_binary_not_reversed(Rv, dv, x) ==
    LET w == [i \in Bins |-> binary_repr_len(x[i], num_bits_of(get_expected_num_entries(Rv, dv)[i]))]
        labels == UNION {{<<i, j>> : j \in 0 .. (w[i] - 1)} : i \in Bins}
    IN [v \in labels |-> (x[v[1]] \div Pow2(w[v[1]] - 1 - v[2])) % 2]

\* compute_energy, lines 284-290: x_binary[f"x{i}[{j}]"] is digit j of the
\* reversed bit string of x[i], whose width is computed from the instance's
\* R and d at the time of the call.
x_binary(Rv, dv, x) ==
    LET w == [i \in Bins |-> binary_repr_len(x[i], num_bits_of(get_expected_num_entries(Rv, dv)[i]))]
        labels == UNION {{<<i, j>> : j \in 0 .. (w[i] - 1)} : i \in Bins}
    IN [v \in labels |-> (x[v[1]] \div Pow2(v[2])) % 2]

\* compute_energy, line 291: self.bqm.energy(x_binary).
compute_energy_raises(m, Rv, dv, x) == ~bqm_energy_defined(m, x_binary(Rv, dv, x))

compute_energy(m, Rv, dv, x) == bqm_energy(m, x_binary(Rv, dv, x))

\* ------------------------------------------------------------------ state
VARIABLES
    R,                \* the ndarray self.R; a toy's instance holds the same object
    d,                \* self.d of the instance the caller holds
    lam,              \* self.lam
    model,            \* self.labels, self.model, self.bqm (NotCompiled before initialize)
    num_entries,      \* what _get_expected_num_entries returned last on this instance
    num_cores,        \* argument of the solve in progress
    pc,               \* where the caller's thread is
    num_toys,         \* argument of the solve in progress
    n_cores,          \* _compute_error's n_cores
    solution,         \* the nominal solution of the solve in progress
    sample,           \* sampleset.first.sample of the nominal solve
    unfolded_results, \* the ensemble array, one row per toy
    writes,           \* how many times each row has been assigned
    toys,             \* each toy task: its state and its own instance
    next_result,      \* the index executor.map's iterator waits for
    exc,              \* the exception on its way to the caller
    ret,              \* what solve_* returned
    hval,             \* value of the Hamiltonian expression at x
    fx,               \* the histogram x handed to an evaluation
    energy            \* what compute_energy returned

vars == <<R, d, lam, model, num_entries, pc, num_toys, num_cores, n_cores, solution,
          sample, unfolded_results, writes, toys, next_result, exc, ret, hval, fx, energy>>

instance_vars == <<R, d, lam, model, num_entries>>
call_vars == <<num_toys, num_cores, n_cores, solution, sample, unfolded_results, writes, toys,
               next_result, exc, ret>>
eval_vars == <<hval, fx, energy>>

\* ----------------------------------------------------------------- inputs
\* Response matrices (numerators over Den) with column sums in [0, 1].
RIdentity == [i \in Bins |-> [j \in Bins |-> IF i = j THEN Den ELSE 0]]
\* column 0 all zeros: a truth bin that is never observed
RZeroColumn == [i \in Bins |-> [j \in Bins |-> IF i = j /\ j # 0 THEN Den ELSE 0]]
\* every efficiency (Den - 1) / Den, no migration
RLowEfficiency == [i \in Bins |-> [j \in Bins |-> IF i = j THEN Den - 1 ELSE 0]]
\* migration of 1 / Den of each bin into the next one
RSmeared ==
    [i \in Bins |-> [j \in Bins |->
        IF i = j THEN Den - 1 ELSE IF i = j + 1 THEN 1 ELSE 0]]

\* every true bin j seen in the bins up to j, 1 / Den each: not symmetric
RDense == [i \in Bins |-> [j \in Bins |-> IF i <= j THEN 1 ELSE 0]]

RInputs == {RIdentity, RZeroColumn, RLowEfficiency, RSmeared}
RInputsQUBO == RInputs \cup {RDense}
DInputs == [Bins -> 0 .. MaxD]
\* measured histograms of the solves with toys: a flat one and a rising one
\* that starts with an empty bin
DInputsToys == {[j \in Bins |-> MaxD], [j \in Bins |-> j % (MaxD + 1)]}
LamInputs == 0 .. MaxLam
XInputs == [Bins -> 0 .. MaxX]

Toys == DOMAIN toys
NoRow == [set |-> FALSE, v |-> [j \in Bins |-> 0]]
NoToy == [st |-> "pending", d |-> [j \in Bins |-> 0], model |-> NotCompiled,
          sample |-> NoneVal, result |-> [j \in Bins |-> 0]]
NoVector == [j \in Bins |-> 0]

InitCall ==
    /\ num_toys = 0
    /\ num_cores = NoneVal
    /\ n_cores = 0
    /\ solution = NoVector
    /\ sample = NoneVal
    /\ unfolded_results = [i \in {} |-> NoRow]
    /\ writes = [i \in {} |-> 0]
    /\ toys = [i \in {} |-> NoToy]
    /\ next_result = 0
    /\ exc = NoneVal
    /\ ret = NoneVal

InitEval ==
    /\ hval = 0
    /\ fx = NoVector
    /\ energy = NoneVal

\* QUnfoldQUBO(response, measured, lam): the fields are set, nothing is compiled.
Init ==
    /\ R \in RInputs
    /\ d \in DInputsToys
    /\ lam = MaxLam
    /\ model = NotCompiled
    /\ num_entries = NoneVal
    /\ pc = "constructed"
    /\ InitCall
    /\ InitEval

\* ------------------------------------------------------------- operations
\* initialize_qubo_model, lines 184-189.
initialize_qubo_model ==
    /\ pc \in {"constructed", "initialized"}
    /\ num_entries' = Some(get_expected_num_entries(R, d))
    /\ R' = response_after_expected(R)
    /\ IF define_variables_raises(R, d)
       THEN /\ pc' = "raised"
            /\ exc' = Some("OverflowError")
            /\ UNCHANGED model
       ELSE /\ model' = compile(R, d, lam)
            /\ pc' = "initialized"
            /\ UNCHANGED exc
    /\ UNCHANGED <<d, lam, num_toys, num_cores, n_cores, solution, sample,
                   unfolded_results, writes, toys, next_result, ret>>
    /\ UNCHANGED eval_vars

\* The sample a sampler hands back first: the backends are heuristic, so it
\* is some assignment of the bqm's variables.  The candidates here are the
\* assignment with no bit set, the one with the lowest bit of every variable
\* set and the one with every bit set.
sampler_first(m) ==
    {[v \in bqm_variables(m) |-> 0],
     [v \in bqm_variables(m) |-> IF v[2] = 0 THEN 1 ELSE 0],
     [v \in bqm_variables(m) |-> 1]}

\* The num_cores arguments tried: not given, or a number of workers.
NumCoresInputs == {NoneVal, Some(MaxWorkers)}

\* line 159: n_cores = os.cpu_count() - 2
default_n_cores(cpus) == cpus - 2

\* lines 159-161
pool_size(cpus, nc) ==
    IF ~nc.none THEN nc.v ELSE default_n_cores(cpus)

\* line 164: np.sqrt(solution).  A square root is kept by its radicand:
\* [rad, over] stands for sqrt(rad / over).
no_toys_error(sol) == [j \in Bins |-> [rad |-> sol[j], over |-> 1]]

\* Faulty variant: one toy is a toy run like any other.
no_toys_case_never(n_toys) == FALSE

\* line 163: if n_toys == 1
no_toys_case(n_toys) == n_toys = 1

\* solve_* called before initialize_qubo_model: solver(unfolder=self) reads
\* unfolder.bqm, an attribute the constructor does not set.
solve_not_initialized ==
    /\ pc = "constructed"
    /\ pc' = "raised"
    /\ exc' = Some("AttributeError")
    /\ UNCHANGED instance_vars
    /\ UNCHANGED <<num_toys, num_cores, n_cores, solution, sample, unfolded_results,
                   writes, toys, next_result, ret>>
    /\ UNCHANGED eval_vars

\* The nominal solve's backend fails: nothing catches it.
solve_backend_fails ==
    /\ pc = "initialized"
    /\ pc' = "raised"
    /\ exc' = Some("SolverError")
    /\ UNCHANGED instance_vars
    /\ UNCHANGED <<num_toys, num_cores, n_cores, solution, sample, unfolded_results,
                   writes, toys, next_result, ret>>
    /\ UNCHANGED eval_vars

\* solve_*(num_toys = nt, num_cores = nc) on a machine where os.cpu_count()
\* is cpus, lines 215-218, and _compute_error
\* up to the point where the caller's thread waits for the first toy: the
\* nominal solve, the pool size, the no-toys return, the ensemble array, the
\* executor (ThreadPoolExecutor raises ValueError for max_workers <= 0) and
\* the submission of every toy by executor.map.
solve(nt, nc, cpus) ==
    /\ pc = "initialized"
    /\ \E s \in sampler_first(model) :
          /\ sample' = Some(s)
          /\ solution' = post_process_sampleset(model, s)
    /\ num_toys' = nt
    /\ num_cores' = nc
    /\ n_cores' = pool_size(cpus, nc)
    /\ IF no_toys_case(nt)
       THEN /\ ret' = Some([solution |-> solution',
                            error |-> Some(no_toys_error(solution')),
                            cov_matrix |-> NoneVal,
                            corr_matrix |-> NoneVal])
            /\ pc' = "returned"
            /\ UNCHANGED <<unfolded_results, writes, toys, next_result, exc>>
       ELSE IF n_cores' <= 0
       THEN /\ exc' = Some("ValueError")
            /\ pc' = "raised"
            /\ unfolded_results' = [i \in 0 .. (nt - 1) |-> NoRow]
            /\ UNCHANGED <<writes, toys, next_result, ret>>
       ELSE /\ unfolded_results' = [i \in 0 .. (nt - 1) |-> NoRow]
            /\ writes' = [i \in 0 .. (nt - 1) |-> 0]
            /\ toys' = [i \in 0 .. (nt - 1) |-> NoToy]
            /\ next_result' = 0
            /\ pc' = "map"
            /\ UNCHANGED <<exc, ret>>
    /\ UNCHANGED instance_vars
    /\ UNCHANGED eval_vars

\* np.random.poisson(self.d): a new array; a bin with mean 0 draws 0, any
\* other bin draws some count.  The draws tried leave the counts as they
\* are, or move every such bin down or up by MaxFluct.
PoissonDraws(dv) ==
    {[j \in Bins |->
         IF dv[j] = 0 THEN 0 ELSE IF dv[j] + f < 0 THEN 0 ELSE dv[j] + f]
        : f \in {0 - MaxFluct, 0, MaxFluct}}

\* Faulty variant: the caller's measured histogram is replaced by the resampled one.
measured_after_resample_inplace(dv, smeared) == smeared

\* line 154-155: self.d after a toy resampled it: poisson returned a new
\* array, which only the toy's instance holds.
measured_after_resample(dv, smeared) == dv

\* Faulty variant: a result goes to the first row not yet written (append order).
store_index_by_completion(results, i) ==
    IF \E k \in DOMAIN results : ~results[k].set
    THEN CHOOSE k \in DOMAIN results :
            ~results[k].set /\ \A l \in DOMAIN results : l < k => results[l].set
    ELSE i

\* line 157: unfolded_results[i] = ...: the row a toy's result is stored in.
store_index(results, i) == i

Running == {i \in Toys : toys[i].st = "running"}

\* toy_job(i), lines 154-156, on a worker thread: the next task of the
\* executor's queue is taken when a worker is free; it resamples, constructs
\* its own instance on the same R and lam, and compiles it.
toy_job_start(i) ==
    /\ pc \in {"map", "shutdown"}
    /\ i \in Toys
    /\ toys[i].st = "pending"
    /\ \A k \in Toys : k < i => toys[k].st # "pending"
    /\ Cardinality(Running) < n_cores
    /\ \E smeared_d \in PoissonDraws(d) :
          /\ d' = measured_after_resample(d, smeared_d)
          /\ R' = response_after_expected(R)
          /\ IF define_variables_raises(R, smeared_d)
             THEN toys' = [toys EXCEPT ![i] = [@ EXCEPT !.st = "failed"]]
             ELSE toys' = [toys EXCEPT ![i] =
                              [@ EXCEPT !.st = "running", !.d = smeared_d,
                                        !.model = compile(R, smeared_d, lam)]]
    /\ UNCHANGED <<lam, model, num_entries, pc, num_toys, num_cores, n_cores, solution,
                   sample, unfolded_results, writes, next_result, exc, ret>>
    /\ UNCHANGED eval_vars

\* toy_job(i), line 157: the solver returns on the toy's instance and the
\* decoded solution is stored in the ensemble.
toy_job_finish(i) ==
    /\ pc \in {"map", "shutdown"}
    /\ i \in Toys
    /\ toys[i].st = "running"
    /\ \E s \in sampler_first(toys[i].model) :
          LET result == post_process_sampleset(toys[i].model, s)
              row == store_index(unfolded_results, i)
          IN /\ toys' = [toys EXCEPT ![i] =
                            [@ EXCEPT !.st = "done", !.sample = Some(s), !.result = result]]
             /\ unfolded_results' =
                    [unfolded_results EXCEPT ![row] = [set |-> TRUE, v |-> result]]
             /\ writes' = [writes EXCEPT ![row] = @ + 1]
    /\ UNCHANGED instance_vars
    /\ UNCHANGED <<pc, num_toys, num_cores, n_cores, solution, sample, next_result,
                   exc, ret>>
    /\ UNCHANGED eval_vars

\* toy_job(i), line 157: the solver raises on the toy's instance (a backend
\* failure); the exception is kept in the toy's future.
toy_job_raises(i) ==
    /\ pc \in {"map", "shutdown"}
    /\ i \in Toys
    /\ toys[i].st = "running"
    /\ toys' = [toys EXCEPT ![i] = [NoToy EXCEPT !.st = "failed"]]
    /\ UNCHANGED instance_vars
    /\ UNCHANGED <<pc, num_toys, num_cores, n_cores, solution, sample, unfolded_results,
                   writes, next_result, exc, ret>>
    /\ UNCHANGED eval_vars

\* Faulty variant: a toy's exception is taken for a result.
result_ready_or_failed(st) == st \in {"done", "failed"}

\* future.result() returns once the toy has returned ...
result_ready(st) == st = "done"

\* ... and raises the toy's exception once the toy has raised.
result_raises(st) == st = "failed"

\* lines 168-174: list(executor.map(...)) takes the results in index order.
map_next ==
    /\ pc = "map"
    /\ next_result \in Toys
    /\ result_ready(toys[next_result].st)
    /\ next_result' = next_result + 1
    /\ pc' = IF next_result + 1 = num_toys THEN "shutdown" ELSE "map"
    /\ UNCHANGED instance_vars
    /\ UNCHANGED <<num_toys, num_cores, n_cores, solution, sample, unfolded_results,
                   writes, toys, exc, ret>>
    /\ UNCHANGED eval_vars

\* The result the iterator waits for is an exception: it is raised in the
\* caller's thread, and the iterator cancels the futures not yet started.
map_raises ==
    /\ pc = "map"
    /\ next_result \in Toys
    /\ result_raises(toys[next_result].st)
    /\ exc' = Some("ToyError")
    /\ toys' = [i \in Toys |->
                   IF toys[i].st = "pending" THEN [toys[i] EXCEPT !.st = "cancelled"]
                   ELSE toys[i]]
    /\ pc' = "shutdown"
    /\ UNCHANGED instance_vars
    /\ UNCHANGED <<num_toys, num_cores, n_cores, solution, sample, unfolded_results,
                   writes, next_result, ret>>
    /\ UNCHANGED eval_vars

\* lines 175-177 on the ensemble: np.std (ddof 0), np.cov and np.corrcoef
\* (rowvar False).  With S1[j] the sum of column j and S2[j][k] the sum of the
\* products of columns j and k over the T rows:
\*   error[j] = sqrt((T S2[j][j] - S1[j]^2) / T^2)
\*   cov[j][k] = (T S2[j][k] - S1[j] S1[k]) / (T (T - 1))
\*   corr[j][k] = c[j][k] / sqrt(c[j][j] c[k][k]), c the numerators of cov
ColumnSum(rows, j) == SumOver([i \in DOMAIN rows |-> rows[i].v[j]], DOMAIN rows)
ProductSum(rows, j, k) ==
    SumOver([i \in DOMAIN rows |-> rows[i].v[j] * rows[i].v[k]], DOMAIN rows)
Comoment(rows, j, k) ==
    Cardinality(DOMAIN rows) * ProductSum(rows, j, k) - ColumnSum(rows, j) * ColumnSum(rows, k)

aggregate(rows) ==
    [error |-> Some([j \in Bins |->
                  [rad |-> Comoment(rows, j, j),
                   over |-> Cardinality(DOMAIN rows) * Cardinality(DOMAIN rows)]]),
     cov_matrix |-> Some([j \in Bins |-> [k \in Bins |->
                  [num |-> Comoment(rows, j, k),
                   den |-> Cardinality(DOMAIN rows) * (Cardinality(DOMAIN rows) - 1)]]]),
     corr_matrix |-> Some([j \in Bins |-> [k \in Bins |->
                  [num |-> Comoment(rows, j, k),
                   rad |-> Comoment(rows, j, j) * Comoment(rows, k, k)]]])]

\* The end of the with block, executor.shutdown(wait=True): the caller's
\* thread waits for the toys that are running.  Then the exception goes on to
\* the caller of solve_*, or lines 175-178 aggregate the ensemble and
\* solve_* returns.
shutdown ==
    /\ pc = "shutdown"
    /\ \A i \in Toys : toys[i].st \in {"done", "failed", "cancelled"}
    /\ IF ~exc.none
       THEN /\ pc' = "raised"
            /\ UNCHANGED ret
       ELSE /\ pc' = "returned"
            /\ ret' = Some([solution |-> solution] @@ aggregate(unfolded_results))
    /\ UNCHANGED instance_vars
    /\ UNCHANGED <<num_toys, num_cores, n_cores, solution, sample, unfolded_results,
                   writes, toys, next_result, exc>>
    /\ UNCHANGED eval_vars

Next ==
    \/ initialize_qubo_model
    \/ solve_not_initialized
    \/ solve_backend_fails
    \/ \E nt \in 1 .. MaxToys, nc \in NumCoresInputs, cpus \in 1 .. MaxCpu :
          solve(nt, nc, cpus)
    \/ \E i \in Toys : toy_job_start(i)
    \/ \E i \in Toys : toy_job_finish(i)
    \/ \E i \in Toys : toy_job_raises(i)
    \/ map_next
    \/ map_raises
    \/ shutdown

Spec == Init /\ [][Next]_vars

\* ---------------------------------------------- the formulation alone
\* The operations of one instance with no toys: the Hamiltonian expression
\* evaluated at a histogram, the compilation, the decoding of an arbitrary
\* sample and the energy evaluation.
InitQUBO ==
    /\ R \in RInputsQUBO
    /\ d \in DInputs
    /\ lam \in LamInputs
    /\ model = NotCompiled
    /\ num_entries = NoneVal
    /\ pc = "constructed"
    /\ InitCall
    /\ InitEval

\* _define_hamiltonian(x) with numbers for x: the value of the expression.
eval_hamiltonian(x) ==
    /\ pc = "constructed"
    /\ fx' = x
    /\ hval' = define_hamiltonian(R, d, lam, x)
    /\ pc' = "evaluated"
    /\ UNCHANGED instance_vars
    /\ UNCHANGED call_vars
    /\ UNCHANGED energy

\* _post_process_sampleset on a sampleset whose first sample is s.
post_process(s) ==
    /\ pc = "initialized"
    /\ sample' = Some(s)
    /\ solution' = post_process_sampleset(model, s)
    /\ pc' = "decoded"
    /\ UNCHANGED instance_vars
    /\ UNCHANGED <<num_toys, num_cores, n_cores, unfolded_results, writes, toys,
                   next_result, exc, ret>>
    /\ UNCHANGED eval_vars

\* compute_energy(x), lines 284-291: on a histogram of the caller's, or on
\* the histogram just decoded.
compute_energy_call(x) ==
    /\ \/ pc = "initialized" /\ x \in XInputs
       \/ pc = "decoded" /\ x = solution
    /\ fx' = x
    /\ num_entries' = Some(get_expected_num_entries(R, d))
    /\ R' = response_after_expected(R)
    /\ IF compute_energy_raises(model, R, d, x)
       THEN /\ pc' = "raised"
            /\ exc' = Some("ValueError")
            /\ UNCHANGED energy
       ELSE /\ pc' = "energy"
            /\ energy' = Some(compute_energy(model, R, d, x))
            /\ UNCHANGED exc
    /\ UNCHANGED <<d, lam, model, num_toys, num_cores, n_cores, solution, sample,
                   unfolded_results, writes, toys, next_result, ret, hval>>

NextQUBO ==
    \/ initialize_qubo_model
    \/ \E x \in XInputs : eval_hamiltonian(x)
    \/ model.compiled /\ \E s \in Assignments(model) : post_process(s)
    \/ \E x \in XInputs \cup {solution} : compute_energy_call(x)

SpecQUBO == InitQUBO /\ [][NextQUBO]_vars

\* ------------------------------------------- a sequence of calls
\* One instance over a sequence of calls of its caller: the setters, the
\* compilation, solves with and without toys, and the energy evaluation.
RInputsSetters == {RIdentity, RLowEfficiency}

InitSetters ==
    /\ R \in RInputsSetters
    /\ d \in DInputsToys
    /\ lam = MaxLam
    /\ model = NotCompiled
    /\ num_entries = NoneVal
    /\ pc = "constructed"
    /\ InitCall
    /\ InitEval

\* set_response, line 37: self.R = response.  Nothing is compiled again.
set_response(response) ==
    /\ pc \in {"constructed", "initialized"}
    /\ response # R
    /\ R' = response
    /\ UNCHANGED <<d, lam, model, num_entries, pc>>
    /\ UNCHANGED call_vars
    /\ UNCHANGED eval_vars

\* set_measured, line 46: self.d = measured.  Nothing is compiled again.
set_measured(measured) ==
    /\ pc \in {"constructed", "initialized"}
    /\ measured # d
    /\ d' = measured
    /\ UNCHANGED <<R, lam, model, num_entries, pc>>
    /\ UNCHANGED call_vars
    /\ UNCHANGED eval_vars

\* set_lam_parameter, line 55: self.lam = lam.  Nothing is compiled again.
set_lam_parameter(l) ==
    /\ pc \in {"constructed", "initialized"}
    /\ l # lam
    /\ lam' = l
    /\ UNCHANGED <<R, d, model, num_entries, pc>>
    /\ UNCHANGED call_vars
    /\ UNCHANGED eval_vars

\* solve_* (line 219) or compute_energy (line 291) has returned: the caller
\* drops what the call left behind and holds the initialized instance again.
call_returns ==
    /\ pc \in {"returned", "energy"}
    /\ pc' = "initialized"
    /\ num_toys' = 0
    /\ num_cores' = NoneVal
    /\ n_cores' = 0
    /\ solution' = NoVector
    /\ sample' = NoneVal
    /\ unfolded_results' = [i \in {} |-> NoRow]
    /\ writes' = [i \in {} |-> 0]
    /\ toys' = [i \in {} |-> NoToy]
    /\ next_result' = 0
    /\ exc' = NoneVal
    /\ ret' = NoneVal
    /\ hval' = 0
    /\ fx' = NoVector
    /\ energy' = NoneVal
    /\ UNCHANGED instance_vars

NextSetters ==
    \/ Next
    \/ \E response \in RInputsSetters : set_response(response)
    \/ \E measured \in DInputsToys : set_measured(measured)
    \/ \E l \in LamInputs : set_lam_parameter(l)
    \/ \E x \in XInputs : compute_energy_call(x)
    \/ call_returns

SpecSetters == InitSetters /\ [][NextSetters]_vars

\* ------------------------------------------------------------------ properties
\* The caller's thread is past list(executor.map(...)) with no exception:
\* what follows is the aggregation of lines 175-177.
AggregationStarts == pc = "shutdown" /\ exc.none

\* C1: with n_toys > 1, whatever the interleaving and the completion order of
\* the toys, when the aggregation starts (and ever after) every row i of the
\* ensemble has been written exactly once and holds the solution toy i
\* decoded from the model of its own resampled measured vector; no row holds
\* another toy's result and none is left unwritten.
C1_RowsIndexedByToy ==
    (AggregationStarts \/ (pc = "returned" /\ num_toys > 1)) =>
        \A i \in Toys :
            /\ writes[i] = 1
            /\ unfolded_results[i].set
            /\ toys[i].st = "done"
            /\ toys[i].model = compile(R, toys[i].d, lam)
            /\ ~toys[i].sample.none
            /\ toys[i].sample.v \in Assignments(toys[i].model)
            /\ toys[i].result = post_process_sampleset(toys[i].model, toys[i].sample.v)
            /\ unfolded_results[i].v = toys[i].result

\* C1 witness: the aggregation starts on an ensemble whose rows differ, from
\* toys whose resampled measured vectors differ.
C1_Witness ==
    /\ AggregationStarts
    /\ num_toys > 1
    /\ toys[0].d # toys[1].d
    /\ unfolded_results[0].v # unfolded_results[1].v
    /\ unfolded_results[1].v = toys[1].result

\* C2: with n_toys > 1, once a toy has raised nothing is returned, whatever
\* the other toys do: no error vector, covariance or correlation, and no
\* aggregation over an ensemble that is not complete; the estimation ends with
\* the exception raised to the caller of solve_*, and until then the caller's
\* thread or a toy can still move.
C2_ToyFailureAborts ==
    /\ (\E i \in Toys : toys[i].st = "failed") =>
          /\ ret.none
          /\ pc \in {"map", "shutdown", "raised"}
          /\ pc = "raised" => (~exc.none /\ exc.v = "ToyError")
          /\ pc # "raised" => ENABLED Next
    /\ (pc = "returned" /\ num_toys > 1) => \A i \in Toys : toys[i].st = "done"

\* C2 witness: the exception of a toy has reached the caller while another
\* toy had completed and written its row.
C2_Witness ==
    /\ pc = "raised"
    /\ num_toys > 1
    /\ \E i \in Toys : toys[i].st = "failed"
    /\ \E i \in Toys : toys[i].st = "done" /\ unfolded_results[i].set
    /\ ret.none

\* C3 (C3_ParentUntouchedByToys, every step satisfies C3_Step): while the toys run, up to the return of solve_*, no step changes the
\* R, d, lam, labels or compiled model of the caller's instance, nor the
\* nominal solution; every toy that starts holds its own resampled d and the
\* model compiled from it, which it keeps to its end; the solution returned is the one decoded from
\* the nominal sample on the caller's model, before the toys started.
C3_Step ==
    pc \in {"map", "shutdown"} =>
        /\ R' = R /\ d' = d /\ lam' = lam /\ model' = model
        /\ solution' = solution
        /\ \A i \in Toys : (toys[i].st = "pending" /\ toys'[i].st = "running") =>
              toys'[i].model = compile(R, toys'[i].d, lam)
        /\ \A i \in Toys : toys[i].st = "running" =>
              (toys'[i].model = toys[i].model /\ toys'[i].d = toys[i].d)
                  \/ toys'[i].st = "failed"
        /\ pc' = "returned" =>
              /\ ret'.v.solution = solution
              /\ ret'.v.solution = post_process_sampleset(model, sample.v)

C3_ParentUntouchedByToys == [][C3_Step]_vars

\* C3 witness: solve_* has returned after toys whose resampled d, and whose
\* variables' ranges, differ from those of the caller's instance.
C3_Witness ==
    /\ pc = "returned"
    /\ num_toys > 1
    /\ \E i \in Toys : toys[i].d # d /\ toys[i].model.upper # model.upper
    /\ model = compile(R, d, lam)

\* C4: with num_toys = 1 solve_* returns the elementwise square root of the
\* nominal solution as the error and None for the covariance and the
\* correlation, and no toy exists: no ensemble, no toy instance, no pool.
C4_NoToysCase ==
    (pc \in {"returned", "map", "shutdown", "raised"} /\ num_toys = 1) =>
        /\ pc = "returned"
        /\ ~ret.none
        /\ ret.v.solution = post_process_sampleset(model, sample.v)
        /\ ~ret.v.error.none
        /\ \A j \in Bins :
              /\ ret.v.error.v[j].over = 1
              /\ ret.v.error.v[j].rad = ret.v.solution[j]
        /\ ret.v.cov_matrix.none
        /\ ret.v.corr_matrix.none
        /\ DOMAIN toys = {}
        /\ DOMAIN unfolded_results = {}

\* C4 witness: a solve with num_toys = 1 has returned a solution that is not
\* its own square root.
C4_Witness ==
    /\ pc = "returned"
    /\ num_toys = 1
    /\ \E j \in Bins : ret.v.solution[j] > 1

\* C5 (as claimed): the pool size is num_cores when given, else the CPU count
\* minus 2 floored at 1, so it is at least 1 and the toy loop starts on a
\* machine with 1 or 2 CPUs.
C5_PoolSizeFloored ==
    num_toys > 1 =>
        /\ n_cores >= 1
        /\ exc.none \/ exc.v # "ValueError"

\* C6: for every R, d, lam >= 0 and integer vector x of the inputs, the value
\* of the Hamiltonian expression, sum a[i] x[i] + sum B[i][j] x[i] x[j] with
\* a = -2 R^T d and B = R^T R + lam G^T G, is ||R x - d||^2 + lam ||G x||^2
\* - ||d||^2 (all three as numerators over Scale), G = _get_laplacian(n).
C6_HamiltonianIsLeastSquares ==
    pc = "evaluated" =>
        hval = NormSq([i \in Bins |-> MatVec(R, fx)[i] - Den * d[i]])
               + lam * Scale * NormSq(MatVec(get_laplacian, fx))
               - Scale * NormSq(d)

\* C6 witness: the expression has been evaluated with a regularization that
\* counts, on a response matrix that is not symmetric.
C6_Witness ==
    /\ pc = "evaluated"
    /\ lam > 0
    /\ R = RDense
    /\ NormSq(MatVec(get_laplacian, fx)) > 0
    /\ NormSq(d) > 0
    /\ hval # 0

\* C7: on an initialized instance, for any bit assignment s over the compiled
\* model's binary variables, compute_energy of the histogram decoded from s
\* does not fail and returns the energy the bqm assigns to s: each bin's
\* width is the number of binary variables of x{i}, and bit j of the decoded
\* value is the value s gives x{i}[j].
C7_EnergyRoundTrip ==
    (pc \in {"energy", "raised"} /\ ~sample.none) =>
        /\ pc = "energy"
        /\ fx = post_process_sampleset(model, sample.v)
        /\ \A i \in Bins :
              num_bits_of(num_entries.v[i]) = log_enc_num_variables(model.upper[i])
        /\ \A v \in bqm_variables(model) : (fx[v[1]] \div Pow2(v[2])) % 2 = sample.v[v]
        /\ energy.v = bqm_energy(model, sample.v)

\* C7 witness: the energy of a decoded sample has been computed, for a sample
\* that is not its own mirror image and whose energy is not zero.
C7_Witness ==
    /\ pc = "energy"
    /\ ~sample.none
    /\ sample.v[<<0, 0>>] = 1
    /\ \E v \in bqm_variables(model) : v[1] = 0 /\ v[2] > 0 /\ sample.v[v] = 0
    /\ energy.v # 0

\* The assignment that encodes the histogram xv in binary.
BitsOf(m, xv) == [v \in bqm_variables(m) |-> (xv[v[1]] \div Pow2(v[2])) % 2]

\* C8: for R the identity and lam = 0, the measured vector d lies inside the
\* encoded domain, d[i] <= upper[i], its binary encoding decodes to d, and
\* every assignment that decodes to something else has a strictly higher
\* energy: d is the unique minimizer, so a lowest-energy sample decodes to d.
C8_IdentityUnfolding ==
    (R = RIdentity /\ lam = 0 /\ model.compiled) =>
        /\ \A i \in Bins : d[i] <= model.upper[i]
        /\ post_process_sampleset(model, BitsOf(model, d)) = d
        /\ pc = "decoded" =>
              /\ solution # d =>
                    bqm_energy(model, sample.v) > bqm_energy(model, BitsOf(model, d))
              /\ solution = d => sample.v = BitsOf(model, d)

\* C8 witness: with the identity and lam = 0 a sample has been decoded to a
\* measured vector whose bins differ.
C8_Witness ==
    /\ R = RIdentity
    /\ lam = 0
    /\ pc = "decoded"
    /\ solution = d
    /\ d[0] # d[1]
    /\ d[1] >= 2

IsPow2(v) == \E k \in 0 .. 16 : v = Pow2(k)

\* upper + 1 is the least power of two that is at least (num / den + 1) * 1.2
UpperIsFor(upper, num, den) ==
    /\ IsPow2(upper + 1)
    /\ 5 * (upper + 1) * den >= 6 * (num + den)
    /\ upper + 1 > 1 => 5 * ((upper + 1) \div 2) * den < 6 * (num + den)

\* C9 (as claimed): upper[i] = 2^ceil(log2((expected[i] + 1) * 1.2)) - 1 with
\* expected[i] = d[i] / max(eff[i], 1), eff[i] the sum of column i of R.
C9_UpperFromFlooredEfficiency ==
    model.compiled =>
        \A i \in Bins :
            UpperIsFor(model.upper[i], d[i] * Den,
                       IF column_sums(R)[i] < Den THEN Den ELSE column_sums(R)[i])

\* C9 (amended): for every bin i the variable is labelled x{i} and ranges over
\* [0, upper[i]], upper[i] = 2^ceil(log2((expected[i] + 1) * 1.2)) - 1, with
\* expected[i] = d[i] / eff[i] when the efficiency eff[i] is not zero and
\* d[i] when it is zero; every decoded value lies in the range.
C9_UpperFromExpected ==
    model.compiled =>
        \A i \in Bins :
            /\ model.labels[i] = i
            /\ UpperIsFor(model.upper[i], d[i] * Den,
                          IF column_sums(R)[i] = 0 THEN Den ELSE column_sums(R)[i])
            /\ pc = "decoded" => solution[i] \in 0 .. model.upper[i]

\* C9 witness: a model has been compiled for a bin whose efficiency lies
\* strictly between 0 and 1 and whose range the efficiency widens.
C9_Witness ==
    /\ model.compiled
    /\ \E i \in Bins :
          /\ column_sums(R)[i] > 0
          /\ column_sums(R)[i] < Den
          /\ ~UpperIsFor(model.upper[i], d[i] * Den, Den)

\* A step that calls _get_expected_num_entries.
ExpectedComputed == pc' \in {"initialized", "energy", "raised"}

\* C10 (C10_ZeroEfficiencyColumn, every step satisfies C10_Step): computing
\* the expected counts does not fail and leaves R as it is; a bin whose column
\* of R is all zeros gets expected = d (efficiency 1), every other bin gets
\* d / efficiency.
C10_Step ==
    ExpectedComputed =>
        /\ pc' # "raised"
        /\ R' = R
        /\ \A j \in Bins :
              /\ num_entries'.v[j].den # 0
              /\ column_sums(R)[j] = 0 =>
                    num_entries'.v[j].num = d[j] * num_entries'.v[j].den
              /\ column_sums(R)[j] # 0 =>
                    num_entries'.v[j].num * column_sums(R)[j]
                        = d[j] * Den * num_entries'.v[j].den

C10_ZeroEfficiencyColumn == [][C10_Step]_vars

\* C10 witness: an instance whose R has an all-zero column and a non-zero
\* count in that bin has been compiled.
C10_Witness ==
    /\ pc = "initialized"
    /\ \E j \in Bins :
          /\ \A i \in Bins : R[i][j] = 0
          /\ d[j] > 0
          /\ num_entries.v[j].num = d[j] * num_entries.v[j].den
    /\ \E j \in Bins : column_sums(R)[j] # 0 /\ d[j] > 0

\* compute_energy was the caller's last call: it returned an energy, or
\* self.bqm.energy raised on the labels it was given.
ComputeEnergyDone ==
    \/ pc = "energy"
    \/ pc = "raised" /\ ~exc.none /\ exc.v = "ValueError" /\ num_toys = 0

\* The labels x{i}[j] compute_energy has for a histogram that fits its widths.
LabelsOfWidths(entries) ==
    UNION {{<<i, j>> : j \in 0 .. (num_bits_of(entries[i]) - 1)} : i \in Bins}

\* C11 (as claimed): after any sequence of constructor, setter,
\* initialize_qubo_model and solve_* calls, compute_energy takes each bin's
\* bit width from the d and R the model was last compiled with, so the bit
\* labels it assigns are exactly the binary variables of the compiled model
\* and the evaluation does not fail, also when set_measured or set_response
\* was called after initialize_qubo_model.
C11_WidthsFromCompiledModel ==
    ComputeEnergyDone =>
        /\ pc = "energy"
        /\ LabelsOfWidths(num_entries.v) = bqm_variables(model)

\* C12 (as claimed): a solve_* call on a constructed instance with no
\* initialize_qubo_model call before it does not fail for lack of a compiled
\* model.
C12_SolveWithoutInitialize ==
    ~(/\ ~model.compiled
      /\ pc = "raised"
      /\ ~exc.none
      /\ exc.v = "AttributeError")

==========================================================================
